---- MODULE Spec2Model ----
(***************************************************************************)
(* Model of easy-2d-renderer (src/main.rs): a winit event loop that owns   *)
(* one window and a wgpu State (surface, config, device, queue) and draws  *)
(* one triangle per RedrawRequested event.                                 *)
(*                                                                         *)
(* The GPU and the window system are external.  What the program does to   *)
(* them is recorded as the sequence `calls` of the calls made by the most  *)
(* recent handler (or by State::new), in program order.                    *)
(***************************************************************************)
EXTENDS Integers, Sequences, FiniteSets, TLC

\* ------------------------------------------------------------------ bounds
\* window and resize dimensions range over 0..MaxDim
MaxDim == 2
\* the surface capabilities list has 1..MaxFormats formats
MaxFormats == 2
\* at most MaxResizes Resized events are delivered in one run
MaxResizes == 2

\* --------------------------------------------------------- external values
\* Texture formats a surface may report; the *Srgb ones answer is_srgb().
Formats == {"Bgra8Unorm", "Bgra8UnormSrgb", "Rgba8Unorm", "Rgba8UnormSrgb"}

is_srgb(f) ==
  f \in {"Bgra8UnormSrgb", "Rgba8UnormSrgb"}

Dims == 0..MaxDim

\* PhysicalSize<u32>
PhysicalSize == [width : Dims, height : Dims]

\* The capabilities list of a surface whose adapter was requested with
\* compatible_surface: Some(&surface): never empty.
CapsLists == UNION {[1..n -> Formats] : n \in 1..MaxFormats}

\* The event's window id either is window.id() or is not.
WindowIds == {"window", "other"}

\* position: [f32; 2], in units of 0.5
TRIANGLE_VERTICES ==
  << <<0, 1>>, <<-1, -1>>, <<1, -1>> >>

\* One call into wgpu / winit: its name, a textual argument, numeric
\* arguments, and the list it returned (<<>> when it returns none).
CallRet(op, arg, nums, ret) ==
  [op |-> op, arg |-> arg, nums |-> nums, ret |-> ret]

Call(op, arg, nums) ==
  CallRet(op, arg, nums, <<>>)

\* No SurfaceConfiguration (State not constructed, surface not configured).
NoConfig ==
  [usage |-> "", format |-> "", width |-> 0, height |-> 0,
   present_mode |-> "", alpha_mode |-> "", view_formats |-> <<>>]

NoSize == [width |-> 0, height |-> 0]

\* surface.configure(&device, &config)
ConfigureCall(cfg) ==
  Call("configure", cfg.format, <<cfg.width, cfg.height>>)

\* ------------------------------------------------------------ State::new
\* variant: takes the first entry whatever it is
select_format_first(formats) ==
  formats[1]

\* .iter().copied().find(|f| f.is_srgb()).unwrap_or(formats[0])
select_format(formats) ==
  IF \E i \in 1..Len(formats) : is_srgb(formats[i])
  THEN formats[CHOOSE i \in 1..Len(formats) :
                 /\ is_srgb(formats[i])
                 /\ \A j \in 1..(i - 1) : ~is_srgb(formats[j])]
  ELSE formats[1]

\* State::new(&window).  startup names the first unwrap() that fails, or "ok".
\* surface.configure panics when config.width or config.height is zero (the
\* call is made with the zero size, State is never returned).
State_new(formats, size, startup) ==
  LET c0 == <<Call("create_surface", "", <<>>)>>
      c1 == c0 \o <<Call("request_adapter", "", <<>>)>>
      c2 == c1 \o <<Call("request_device", "", <<>>)>>
      cfg == [usage |-> "RENDER_ATTACHMENT",
              format |-> select_format(formats),
              width |-> size.width,
              height |-> size.height,
              present_mode |-> "Fifo",
              alpha_mode |-> "Auto",
              view_formats |-> <<>>]
      c3 == c2 \o <<CallRet("get_capabilities", "", <<>>, formats),
                     ConfigureCall(cfg)>>
      fail(cs) == [ok |-> FALSE, config |-> NoConfig, surface |-> NoConfig,
                   calls |-> cs]
  IN  CASE startup = "no_surface" -> fail(c0)
        [] startup = "no_adapter" -> fail(c1)
        [] startup = "no_device" -> fail(c2)
        [] OTHER ->
             IF size.width = 0 \/ size.height = 0
             THEN [ok |-> FALSE, config |-> NoConfig, surface |-> NoConfig,
                   calls |-> c3]
             ELSE [ok |-> TRUE, config |-> cfg, surface |-> cfg,
                   calls |-> c3]

\* --------------------------------------------------------- State::resize
\* variant: config.height is not assigned
resize_keeps_height(cfg, surf, size) ==
  IF size.width > 0 /\ size.height > 0
  THEN LET c == [cfg EXCEPT !.width = size.width]
       IN  [config |-> c, surface |-> c, calls |-> <<ConfigureCall(c)>>]
  ELSE [config |-> cfg, surface |-> surf, calls |-> <<>>]

\* variant: || in place of &&
resize_or(cfg, surf, size) ==
  IF size.width > 0 \/ size.height > 0
  THEN LET c == [cfg EXCEPT !.width = size.width, !.height = size.height]
       IN  [config |-> c, surface |-> c, calls |-> <<ConfigureCall(c)>>]
  ELSE [config |-> cfg, surface |-> surf, calls |-> <<>>]

\* variant: the surface.configure call is missing
resize_no_configure(cfg, surf, size) ==
  IF size.width > 0 /\ size.height > 0
  THEN LET c == [cfg EXCEPT !.width = size.width, !.height = size.height]
       IN  [config |-> c, surface |-> surf, calls |-> <<>>]
  ELSE [config |-> cfg, surface |-> surf, calls |-> <<>>]

resize(cfg, surf, size) ==
  IF size.width > 0 /\ size.height > 0
  THEN LET c == [cfg EXCEPT !.width = size.width, !.height = size.height]
       IN  [config |-> c, surface |-> c, calls |-> <<ConfigureCall(c)>>]
  ELSE [config |-> cfg, surface |-> surf, calls |-> <<>>]

\* ------------------------------------------------------ TrianglePipeline
create_vertex_buffer ==
  <<Call("create_buffer_init", "VERTEX", <<Len(TRIANGLE_VERTICES)>>)>>

create_shader_module ==
  <<Call("create_shader_module", "shader.wgsl", <<>>)>>

TrianglePipeline_new(format) ==
  create_vertex_buffer \o create_shader_module
    \o <<Call("create_render_pipeline", format, <<>>)>>

\* variant: the draw range is one vertex short
draw_short ==
  <<Call("set_pipeline", "", <<>>),
    Call("set_vertex_buffer", "", <<0>>),
    Call("draw", "", <<0, Len(TRIANGLE_VERTICES) - 1, 0, 1>>)>>

draw ==
  <<Call("set_pipeline", "", <<>>),
    Call("set_vertex_buffer", "", <<0>>),
    Call("draw", "", <<0, Len(TRIANGLE_VERTICES), 0, 1>>)>>

\* --------------------------------------------------------- State::render
\* variant: the texture is presented before the commands are submitted
render_present_first(surf, acquired) ==
  LET pre == <<Call("create_command_encoder", "", <<>>),
               Call("get_current_texture", "", <<>>)>>
  IN  IF ~acquired
      THEN [ok |-> FALSE, calls |-> pre]
      ELSE [ok |-> TRUE,
            calls |-> pre
              \o <<Call("create_view", "", <<>>)>>
              \o TrianglePipeline_new(surf.format)
              \o <<Call("begin_render_pass", "Clear(BLACK),Store", <<>>)>>
              \o draw
              \o <<Call("end_render_pass", "", <<>>),
                   Call("finish", "", <<>>),
                   Call("present", "", <<>>),
                   Call("submit", "", <<>>)>>]

\* variant: a failed acquisition skips the frame instead of unwrapping
render_skip_frame(surf, acquired) ==
  LET pre == <<Call("create_command_encoder", "", <<>>),
               Call("get_current_texture", "", <<>>)>>
  IN  IF ~acquired
      THEN [ok |-> TRUE, calls |-> pre]
      ELSE [ok |-> TRUE,
            calls |-> pre
              \o <<Call("create_view", "", <<>>)>>
              \o TrianglePipeline_new(surf.format)
              \o <<Call("begin_render_pass", "Clear(BLACK),Store", <<>>)>>
              \o draw
              \o <<Call("end_render_pass", "", <<>>),
                   Call("finish", "", <<>>),
                   Call("submit", "", <<>>),
                   Call("present", "", <<>>)>>]

\* acquired: whether surface.get_current_texture() returns Ok.  The acquired
\* texture has the format the surface was last configured with.
render(surf, acquired) ==
  LET pre == <<Call("create_command_encoder", "", <<>>),
               Call("get_current_texture", "", <<>>)>>
  IN  IF ~acquired
      THEN [ok |-> FALSE, calls |-> pre]
      ELSE [ok |-> TRUE,
            calls |-> pre
              \o <<Call("create_view", "", <<>>)>>
              \o TrianglePipeline_new(surf.format)
              \o <<Call("begin_render_pass", "Clear(BLACK),Store", <<>>)>>
              \o draw
              \o <<Call("end_render_pass", "", <<>>),
                   Call("finish", "", <<>>),
                   Call("submit", "", <<>>),
                   Call("present", "", <<>>)>>]

\* ------------------------------------------------------------------ state
VARIABLES
  pc,               \* "boot", "running", "exiting", "exited", "panicked"
  config,           \* State.config
  surface,          \* the configuration last applied to the surface
  redraw_requested, \* the window has a pending request_redraw()
  event,            \* the event dispatched last
  calls,            \* the calls made while handling it
  last_positive,    \* size of the last Resized with both dimensions positive
  n_positive,       \* number of such Resized events for this window
  n_reconfigured    \* number of surface.configure calls made by resize

vars ==
  <<pc, config, surface, redraw_requested, event,
    calls, last_positive, n_positive, n_reconfigured>>

Ev(kind, own, size, acquired) ==
  [kind |-> kind, own |-> own, size |-> size, acquired |-> acquired]

Count(cs, op) ==
  Cardinality({i \in 1..Len(cs) : cs[i].op = op})

\* The loop dispatches events while it runs, and, after elwt.exit(), the
\* events still queued in the current iteration.
Dispatching ==
  pc \in {"running", "exiting"}

Init ==
  /\ pc = "boot"
  /\ config = NoConfig
  /\ surface = NoConfig
  /\ redraw_requested = FALSE
  /\ event = Ev("None", FALSE, NoSize, FALSE)
  /\ calls = <<>>
  /\ last_positive = NoSize
  /\ n_positive = 0
  /\ n_reconfigured = 0

\* main: rt.block_on(State::new(&window)), for the formats the surface
\* reports and the size window.inner_size() returns.
New ==
  /\ pc = "boot"
  /\ \E startup \in {"ok", "no_surface", "no_adapter", "no_device"},
        formats \in CapsLists, size \in PhysicalSize :
       LET r == State_new(formats, size, startup)
       IN  /\ pc' = IF r.ok THEN "running" ELSE "panicked"
           /\ config' = r.config
           /\ surface' = r.surface
           /\ calls' = r.calls
           /\ event' = Ev("Init", TRUE, size, FALSE)
           /\ last_positive' = size
  /\ UNCHANGED <<redraw_requested, n_positive, n_reconfigured>>

\* variant: the close request does not call elwt.exit()
CloseRequested_no_exit ==
  /\ pc \in {"running", "exiting"}
  /\ \E wid \in {"window", "other"} :
       /\ event' = [kind |-> "CloseRequested", own |-> wid = "window",
                    size |-> NoSize, acquired |-> FALSE]
       /\ pc' = pc
       /\ calls' = <<>>
  /\ UNCHANGED <<config, surface, redraw_requested,
                 last_positive, n_positive, n_reconfigured>>

\* WindowEvent::CloseRequested => elwt.exit()
CloseRequested ==
  /\ Dispatching
  /\ \E wid \in WindowIds :
       /\ event' = Ev("CloseRequested", wid = "window", NoSize, FALSE)
       /\ IF wid = "window"
          THEN /\ pc' = "exiting"
               /\ calls' = <<Call("exit", "", <<>>)>>
          ELSE /\ pc' = pc
               /\ calls' = <<>>
  /\ UNCHANGED <<config, surface, redraw_requested,
                 last_positive, n_positive, n_reconfigured>>

\* WindowEvent::RedrawRequested => state.render()
\* The window system delivers it for a pending request_redraw() (which it
\* thereby consumes) or of its own accord.
RedrawRequestedFor(wid) ==
  /\ Dispatching
  /\ \E acquired \in BOOLEAN :
       IF wid = "window"
       THEN LET r == render(surface, acquired)
            IN  /\ event' = Ev("RedrawRequested", TRUE, NoSize, acquired)
                /\ pc' = IF r.ok THEN pc ELSE "panicked"
                /\ calls' = r.calls
                /\ redraw_requested' = FALSE
       ELSE /\ event' = Ev("RedrawRequested", FALSE, NoSize, FALSE)
            /\ pc' = pc
            /\ calls' = <<>>
            /\ redraw_requested' = redraw_requested
  /\ UNCHANGED <<config, surface, last_positive,
                 n_positive, n_reconfigured>>

RedrawRequested ==
  \E wid \in WindowIds : RedrawRequestedFor(wid)

\* WindowEvent::Resized(size) => state.resize(size)
Resized ==
  /\ Dispatching
  /\ \E wid \in WindowIds, size \in PhysicalSize :
       LET positive == size.width > 0 /\ size.height > 0
       IN
       /\ positive => n_positive < MaxResizes
       /\ event' = Ev("Resized", wid = "window",
                      IF wid = "window" THEN size ELSE NoSize, FALSE)
       /\ IF wid = "window"
          THEN LET r == resize(config, surface, size)
               IN  /\ config' = r.config
                   /\ surface' = r.surface
                   /\ calls' = r.calls
                   /\ n_reconfigured' =
                        n_reconfigured + Count(r.calls, "configure")
                   /\ last_positive' =
                        IF positive THEN size ELSE last_positive
                   /\ n_positive' =
                        IF positive THEN n_positive + 1 ELSE n_positive
          ELSE /\ calls' = <<>>
               /\ UNCHANGED <<config, surface, n_reconfigured, last_positive,
                              n_positive>>
  /\ UNCHANGED <<pc, redraw_requested>>

\* any other WindowEvent: _ => ()
OtherWindowEvent ==
  /\ Dispatching
  /\ \E wid \in WindowIds :
       event' = Ev("OtherWindowEvent", wid = "window", NoSize, FALSE)
  /\ calls' = <<>>
  /\ UNCHANGED <<pc, config, surface,
                 redraw_requested, last_positive, n_positive, n_reconfigured>>

\* variant: the idle event does not call window.request_redraw()
AboutToWait_no_request ==
  /\ pc \in {"running", "exiting"}
  /\ event' = [kind |-> "AboutToWait", own |-> FALSE, size |-> NoSize,
               acquired |-> FALSE]
  /\ calls' = <<>>
  /\ UNCHANGED <<pc, config, surface,
                 redraw_requested, last_positive, n_positive, n_reconfigured>>

\* Event::AboutToWait => window.request_redraw()
AboutToWait ==
  /\ Dispatching
  /\ event' = Ev("AboutToWait", FALSE, NoSize, FALSE)
  /\ calls' = <<Call("request_redraw", "", <<>>)>>
  /\ redraw_requested' = TRUE
  /\ UNCHANGED <<pc, config, surface,
                 last_positive, n_positive, n_reconfigured>>

\* any other Event: _ => ()
OtherEvent ==
  /\ Dispatching
  /\ event' = Ev("OtherEvent", FALSE, NoSize, FALSE)
  /\ calls' = <<>>
  /\ UNCHANGED <<pc, config, surface,
                 redraw_requested, last_positive, n_positive, n_reconfigured>>

\* After elwt.exit() the loop ends its iteration, hands Event::LoopExiting to
\* the closure (_ => ()) and event_loop.run returns.
LoopExit ==
  /\ pc = "exiting"
  /\ pc' = "exited"
  /\ event' = Ev("LoopExiting", FALSE, NoSize, FALSE)
  /\ calls' = <<>>
  /\ UNCHANGED <<config, surface, redraw_requested,
                 last_positive, n_positive, n_reconfigured>>

Next ==
  \/ New
  \/ CloseRequested
  \/ RedrawRequested
  \/ Resized
  \/ OtherWindowEvent
  \/ AboutToWait
  \/ OtherEvent
  \/ LoopExit

Spec ==
  Init /\ [][Next]_vars

TypeOK ==
  /\ pc \in {"boot", "running", "exiting", "exited", "panicked"}
  /\ redraw_requested \in BOOLEAN
  /\ n_positive \in 0..MaxResizes
  /\ n_reconfigured \in 0..MaxResizes

\* The window system delivers RedrawRequested for a pending request_redraw().
DeliverRedraw ==
  /\ redraw_requested
  /\ RedrawRequestedFor("window")

\* Scheduling the window system and the runtime provide: startup resolves,
\* idle events keep coming, requested redraws are delivered, and a loop that
\* was asked to exit exits.
FairSpec ==
  /\ Spec
  /\ WF_vars(New)
  /\ WF_vars(AboutToWait)
  /\ WF_vars(DeliverRedraw)
  /\ WF_vars(LoopExit)

\* ------------------------------------------------------------- properties
\* position of the only call named op in cs
Idx(cs, op) ==
  CHOOSE i \in 1..Len(cs) : cs[i].op = op

Positive(size) ==
  size.width > 0 /\ size.height > 0

\* the last event was handled for the program's window
Own(kind) ==
  event.kind = kind /\ event.own

\* C1: after resize(size) with both dimensions positive, the stored
\* configuration has size's width and height, and the surface was
\* reconfigured exactly once in that call, with the updated configuration.
C1_ResizePositive ==
  (Own("Resized") /\ Positive(event.size)) =>
    /\ config.width = event.size.width
    /\ config.height = event.size.height
    /\ Count(calls, "configure") = 1
    /\ calls[Idx(calls, "configure")] = ConfigureCall(config)
    /\ surface = config

C1_Witness ==
  /\ Own("Resized")
  /\ Positive(event.size)
  /\ n_positive = 2
  /\ pc = "running"

\* C2: a resize(size) with a zero width or a zero height leaves the stored
\* configuration unchanged, does not reconfigure the surface and raises no
\* error.
C2_ResizeZero ==
  [][(/\ event'.kind = "Resized"
      /\ event'.own
      /\ ~Positive(event'.size))
     => /\ config' = config
        /\ surface' = surface
        /\ calls' = <<>>
        /\ n_reconfigured' = n_reconfigured
        /\ pc' = pc]_vars

C2_Witness ==
  /\ Own("Resized")
  /\ event.size.width = 0
  /\ event.size.height > 0
  /\ config # NoConfig
  /\ config.height # event.size.height

\* C3: every configuration applied to the surface (by State::new and by
\* State::resize) has width > 0 and height > 0.
C3_ConfigurePositive ==
  \A i \in 1..Len(calls) :
    calls[i].op = "configure" =>
      calls[i].nums[1] > 0 /\ calls[i].nums[2] > 0

\* C4: once State exists, the stored configuration's size is that of the
\* most recent Resized event of the window with both dimensions positive, or
\* the window's initial size if there was none, and resize handling has
\* reconfigured the surface once per such event.
C4_LastPositiveResize ==
  config # NoConfig =>
    /\ config.width = last_positive.width
    /\ config.height = last_positive.height
    /\ n_reconfigured = n_positive

C4_Witness ==
  /\ Own("Resized")
  /\ ~Positive(event.size)
  /\ n_positive = 1
  /\ config # NoConfig

\* the formats get_capabilities returned to State::new
InitCaps ==
  calls[Idx(calls, "get_capabilities")].ret

\* the format of the configuration State::new applied
InitFormat ==
  calls[Idx(calls, "configure")].arg

\* C5: the surface format State::new selects is the first sRGB entry of the
\* capabilities list if the list has one, and the first entry otherwise.
C5_FormatSelection ==
  (event.kind = "Init" /\ Count(calls, "configure") = 1) =>
    /\ IF \E i \in 1..Len(InitCaps) : is_srgb(InitCaps[i])
       THEN /\ is_srgb(InitFormat)
            /\ \E i \in 1..Len(InitCaps) :
                 /\ InitCaps[i] = InitFormat
                 /\ \A j \in 1..(i - 1) : ~is_srgb(InitCaps[j])
       ELSE InitFormat = InitCaps[1]
    /\ pc = "running" => config.format = InitFormat

C5_Witness ==
  /\ event.kind = "Init"
  /\ pc = "running"
  /\ Len(InitCaps) >= 2
  /\ ~is_srgb(InitCaps[1])
  /\ is_srgb(InitCaps[2])
  /\ config.format = InitCaps[2]

\* a render call ran to its end in the last step
Rendered ==
  Own("RedrawRequested") /\ event.acquired

\* C6: a render call that completes issues exactly one draw, of vertices
\* [0,3) and instances [0,1), inside its single render pass, after binding
\* the pipeline and the vertex buffer at slot 0.
C6_OneDraw ==
  Rendered =>
    /\ Count(calls, "draw") = 1
    /\ Count(calls, "begin_render_pass") = 1
    /\ Count(calls, "end_render_pass") = 1
    /\ Count(calls, "set_pipeline") = 1
    /\ Count(calls, "set_vertex_buffer") = 1
    /\ calls[Idx(calls, "draw")].nums = <<0, 3, 0, 1>>
    /\ calls[Idx(calls, "set_vertex_buffer")].nums = <<0>>
    /\ Idx(calls, "begin_render_pass") < Idx(calls, "set_pipeline")
    /\ Idx(calls, "begin_render_pass") < Idx(calls, "set_vertex_buffer")
    /\ Idx(calls, "set_pipeline") < Idx(calls, "draw")
    /\ Idx(calls, "set_vertex_buffer") < Idx(calls, "draw")
    /\ Idx(calls, "draw") < Idx(calls, "end_render_pass")

C6_Witness ==
  /\ Rendered
  /\ n_positive >= 1

\* each op of ops occurs exactly once in cs, in the order of ops
InOrder(cs, ops) ==
  /\ \A k \in 1..Len(ops) : Count(cs, ops[k]) = 1
  /\ \A k \in 1..(Len(ops) - 1) : Idx(cs, ops[k]) < Idx(cs, ops[k + 1])

\* C7 as claimed: in a render call the steps are, each once and in this
\* order: acquire the texture, create the view, open the command encoder,
\* begin the pass, draw, end the pass, submit, present.
C7_Original ==
  Rendered =>
    InOrder(calls, <<"get_current_texture", "create_view",
                     "create_command_encoder", "begin_render_pass", "draw",
                     "end_render_pass", "submit", "present">>)

\* C7 amended: in a render call that completes the steps are, each once and
\* in this order: open the command encoder, acquire the texture, create the
\* view, begin the pass (clear to black, store), draw, end the pass, submit,
\* present.
C7_RenderOrder ==
  Rendered =>
    /\ InOrder(calls, <<"create_command_encoder", "get_current_texture",
                        "create_view", "begin_render_pass", "draw",
                        "end_render_pass", "submit", "present">>)
    /\ calls[Idx(calls, "begin_render_pass")].arg = "Clear(BLACK),Store"

C7_Witness ==
  /\ Rendered
  /\ pc = "running"
  /\ n_positive = 0

\* the last step was a render call whose texture acquisition failed
AcquireFailed ==
  Own("RedrawRequested") /\ ~event.acquired

\* C8: a failed texture acquisition in render is fatal: it is attempted
\* once, the frame has no draw, submit or present, the stored configuration
\* is not modified, and nothing is handled afterwards.
C8_AcquireFatal ==
  /\ [](AcquireFailed =>
          /\ pc = "panicked"
          /\ Count(calls, "get_current_texture") = 1
          /\ Count(calls, "draw") = 0
          /\ Count(calls, "submit") = 0
          /\ Count(calls, "present") = 0)
  /\ [][(event'.kind = "RedrawRequested" /\ event'.own /\ ~event'.acquired)
        => (config' = config /\ surface' = surface)]_vars
  /\ [][pc # "panicked"]_vars

C8_Witness ==
  /\ AcquireFailed
  /\ pc = "panicked"
  /\ n_positive >= 1

\* C9: every AboutToWait requests a redraw, and while the loop is neither
\* closed nor dead render is invoked infinitely often.
C9_RenderLoop ==
  /\ [](event.kind = "AboutToWait" =>
          /\ Count(calls, "request_redraw") = 1
          /\ redraw_requested)
  /\ ([]<>(Own("RedrawRequested")) \/ <>(pc \notin {"boot", "running"}))

C9_Witness ==
  /\ event.kind = "AboutToWait"
  /\ pc = "running"
  /\ redraw_requested

\* C10: a CloseRequested of the program's window asks the loop to exit and
\* triggers no render, resize or reconfiguration; the loop then terminates,
\* and once it has exited nothing more is handled.
C10_Close ==
  /\ [](Own("CloseRequested") =>
          /\ pc = "exiting"
          /\ Count(calls, "exit") = 1
          /\ Len(calls) = 1)
  /\ [][event'.kind = "CloseRequested"
        => /\ config' = config
           /\ surface' = surface
           /\ n_reconfigured' = n_reconfigured]_vars
  /\ [][pc # "exited"]_vars
  /\ ((pc = "exiting") ~> (pc \in {"exited", "panicked"}))

C10_Witness ==
  /\ Own("CloseRequested")
  /\ pc = "exiting"
  /\ n_positive >= 1
====
